---------------------------- MODULE Spec2Model ----------------------------
(***************************************************************************)
(* A model of sort_books.py: name normalisation, patterns, the group tree, *)
(* the recursive descendant-first classifier and process_all, the loop     *)
(* that copies, links and (in move mode) deletes files.                    *)
(*                                                                         *)
(* Text is a sequence of one-character strings.  A path below the          *)
(* destination directory is the sequence of its components.                *)
(***************************************************************************)
EXTENDS Naturals, Integers, Sequences, FiniteSets, TLC

VARIABLES
    text,               \* normalisation run: the input string
    once,               \* normalisation run: normalize_name(text)
    twice,              \* normalisation run: normalize_name(once)
    npc,                \* normalisation run: "in", "once", "twice"
    top_groups,         \* the group forest: [groups, roots]
    file_path,          \* classifier run: the file name classified
    group,              \* classifier run: the group the classifier is called on
    result,             \* classifier run: what match_file_recursively returned
    cpc,                \* classifier run: "idle", "called", "off"
    dry_run,            \* process_all: the dry_run argument
    move,               \* process_all: the move argument
    hardlink_supported, \* process_all: what check_same_drive returned
    walk,               \* process_all: the source files in the order os.walk yields them
    idx,                \* process_all: the place in walk of the file at hand
    pc,                 \* process_all: "walk", "primary", "secondary", "delete",
                        \*              "done", "raised", "off"
    matches,            \* process_all: the groups the file at hand matched
    matches_sorted,     \* process_all: matches, ordered by priority
    pending,            \* process_all: the secondary groups not placed yet
    files_to_delete,    \* process_all: the source files to delete at the end
    deleting,           \* process_all: the files of files_to_delete not deleted yet
    fs                  \* the file system: [src, dst, data, dirs, log]

nvars == <<text, once, twice, npc>>
cvars == <<file_path, group, result, cpc>>
pvars == <<dry_run, move, hardlink_supported, walk, idx, pc, matches,
           matches_sorted, pending, files_to_delete, deleting, fs>>
vars == <<nvars, top_groups, cvars, pvars>>

-----------------------------------------------------------------------------
(* Bounds *)

\* Longest input string of the normalisation run.
MaxLen == 4

\* Most source files os.walk yields in one run of process_all.
MaxFiles == 2

-----------------------------------------------------------------------------
(* Characters and strings *)

\* str.lower() on the characters of the model's alphabet.
Lower(c) ==
    CASE c = "A" -> "a"
      [] c = "B" -> "b"
      [] c = "C" -> "c"
      [] OTHER -> c

\* The class [._\-] of normalize_name's first substitution.
IsSeparator(c) == c \in {".", "_", "-"}

\* The class \s of the regular expressions, which is also what str.strip() removes.
IsSpace(c) == c \in {" ", "\t"}

RECURSIVE LowerStr(_)
LowerStr(s) ==
    IF s = <<>> THEN <<>> ELSE <<Lower(Head(s))>> \o LowerStr(Tail(s))

\* s.lstrip()
RECURSIVE LStrip(_)
LStrip(s) ==
    IF s # <<>> /\ IsSpace(Head(s)) THEN LStrip(Tail(s)) ELSE s

\* s.rstrip()
RECURSIVE RStrip(_)
RStrip(s) ==
    IF s # <<>> /\ IsSpace(s[Len(s)]) THEN RStrip(SubSeq(s, 1, Len(s) - 1)) ELSE s

\* s.strip()
Strip(s) == RStrip(LStrip(s))

\* re.sub(r'[._\-]+', ' ', s): every maximal run of separators becomes one space.
RECURSIVE SubSeparators(_)
SubSeparators(s) ==
    IF s = <<>> THEN <<>>
    ELSE IF IsSeparator(Head(s))
         THEN IF Len(s) > 1 /\ IsSeparator(s[2])
              THEN SubSeparators(Tail(s))
              ELSE <<" ">> \o SubSeparators(Tail(s))
         ELSE <<Head(s)>> \o SubSeparators(Tail(s))

\* re.sub(r'\s+', ' ', s): every maximal run of whitespace becomes one space.
RECURSIVE SubSpaces(_)
SubSpaces(s) ==
    IF s = <<>> THEN <<>>
    ELSE IF IsSpace(Head(s))
         THEN IF Len(s) > 1 /\ IsSpace(s[2])
              THEN SubSpaces(Tail(s))
              ELSE <<" ">> \o SubSpaces(Tail(s))
         ELSE <<Head(s)>> \o SubSpaces(Tail(s))

\* A wrong order of the two substitutions: whitespace first, separators second.
normalize_name_swapped(name) == LowerStr(Strip(SubSeparators(SubSpaces(name))))

normalize_name(name) == LowerStr(Strip(SubSpaces(SubSeparators(name))))

\* tok in text
IsSubstr(tok, s) ==
    \E i \in 0..(Len(s) - Len(tok)) : SubSeq(s, i + 1, i + Len(tok)) = tok

\* s.startswith(prefix)
StartsWith(s, prefix) ==
    Len(s) >= Len(prefix) /\ SubSeq(s, 1, Len(prefix)) = prefix

\* s.split(sep) for a one-character separator.
RECURSIVE SplitFrom(_, _, _)
SplitFrom(s, sep, cur) ==
    IF s = <<>> THEN <<cur>>
    ELSE IF Head(s) = sep
         THEN <<cur>> \o SplitFrom(Tail(s), sep, <<>>)
         ELSE SplitFrom(Tail(s), sep, Append(cur, Head(s)))

Split(s, sep) == SplitFrom(s, sep, <<>>)

\* The alphabet of the normalisation run.
Alphabet == {"a", "B", ".", "_", "-", " ", "\t"}

\* All strings over Alphabet of at most MaxLen characters.
Strings == UNION {[1..n -> Alphabet] : n \in 0..MaxLen}

-----------------------------------------------------------------------------
(* Patterns *)

\* The prefix that marks a regular-expression alternative.
RegexPrefix == <<"r", "e", "g", "e", "x", ":">>

\* max(len(alt) for alt in alternatives)
RECURSIVE MaxLenOf(_)
MaxLenOf(alts) ==
    IF alts = <<>> THEN 0
    ELSE LET m == MaxLenOf(Tail(alts))
         IN  IF Len(Head(alts)) > m THEN Len(Head(alts)) ELSE m

\* [alt.strip() for alt in re.split(r'\s*\|\s*', raw) if alt.strip()]
RECURSIVE StripNonEmpty(_)
StripNonEmpty(parts) ==
    IF parts = <<>> THEN <<>>
    ELSE IF Strip(Head(parts)) = <<>>
         THEN StripNonEmpty(Tail(parts))
         ELSE <<Strip(Head(parts))>> \o StripNonEmpty(Tail(parts))

\* Pattern.__init__
Pattern(raw0) ==
    LET raw == Strip(raw0)
        alternatives == StripNonEmpty(Split(raw, "|"))
    IN  [raw |-> raw,
         alternatives |-> alternatives,
         priority |-> IF alternatives # <<>> THEN MaxLenOf(alternatives) ELSE Len(raw)]

\* re.search(pattern, text, IGNORECASE) for the expressions of the model: a
\* run of letters is searched as a substring whatever its case, and an
\* expression with an unbalanced "(" does not compile (re.error, caught by
\* Pattern.matches, which goes on to the next alternative).
RegexCompiles(pattern) == \A i \in 1..Len(pattern) : pattern[i] # "("

RegexSearch(pattern, text_norm) ==
    /\ RegexCompiles(pattern)
    /\ IsSubstr(LowerStr(pattern), LowerStr(text_norm))

\* [normalize_name(t) for t in alt.split('*') if t.strip()]
RECURSIVE WildcardTokens(_)
WildcardTokens(parts) ==
    IF parts = <<>> THEN <<>>
    ELSE IF Strip(Head(parts)) = <<>>
         THEN WildcardTokens(Tail(parts))
         ELSE <<normalize_name(Head(parts))>> \o WildcardTokens(Tail(parts))

\* One alternative of Pattern.matches.
AlternativeMatches(alt, text_norm) ==
    IF StartsWith(alt, RegexPrefix)
    THEN RegexSearch(SubSeq(alt, Len(RegexPrefix) + 1, Len(alt)), text_norm)
    ELSE IF \E i \in 1..Len(alt) : alt[i] = "*"
         THEN LET tokens == WildcardTokens(Split(alt, "*"))
              IN  \A i \in 1..Len(tokens) : IsSubstr(tokens[i], text_norm)
         ELSE IsSubstr(normalize_name(alt), text_norm)

\* Pattern.matches
PatternMatches(p, text_norm) ==
    \E i \in 1..Len(p.alternatives) : AlternativeMatches(p.alternatives[i], text_norm)

\* os.path.splitext(base)[0]: the extension starts at the last dot, unless
\* only dots precede it.
SplitextRoot(base) ==
    LET dots == {i \in 1..Len(base) : base[i] = "."}
    IN  IF dots = {} THEN base
        ELSE LET d == CHOOSE i \in dots : \A j \in dots : j <= i
             IN  IF \E k \in 1..(d - 1) : base[k] # "."
                 THEN SubSeq(base, 1, d - 1)
                 ELSE base

\* The patterns of the model's configurations.
PatA     == Pattern(<<"a">>)
PatAB    == Pattern(<<"a", "_", "B">>)
PatWild  == Pattern(<<"b", "*", "a">>)
PatAlt   == Pattern(<<" ", "c", " ", "|", " ", "a", "b">>)
PatRegex == Pattern(<<"r", "e", "g", "e", "x", ":", "B">>)
PatBad   == Pattern(<<"r", "e", "g", "e", "x", ":", "(">>)
PatNone  == Pattern(<<"|">>)
PatStar  == Pattern(<<"*">>)

\* The base names of the model's source files.
NameAB   == <<"A", "_", "b", ".", "x">>
NameABC  == <<"a", "b", "-", "c", ".", "x">>
NameC    == <<"c">>
NameDotA == <<".", "a">>
NameD    == <<"d", ".", "x">>

Names == {NameAB, NameABC, NameC, NameDotA, NameD}

-----------------------------------------------------------------------------
(* Groups *)

\* The groups of a forest are numbered; a Group refers to its parent and to
\* its subgroups by number, and 0 stands for None.
NoGroup == 0

\* Group.__init__ followed by build_node's filling of the pattern lists and
\* of the subgroups.
Group(name, parent, subgroups, include_patterns, exclude_patterns) ==
    [name |-> name,
     parent |-> parent,
     subgroups |-> subgroups,
     include_patterns |-> include_patterns,
     exclude_patterns |-> exclude_patterns]

\* The shape of the model's configurations, as build_groups_from_config
\* builds it: two top-level groups, R and K; R holds A and a second child
\* (named B, or A again); A holds C.
GroupIds == 1..5

Forest(second, inc, exc) ==
    [groups |-> <<Group("R", NoGroup, <<2, 3>>, inc[1], exc[1]),
                  Group("A", 1, <<4>>, inc[2], exc[2]),
                  Group(second, 1, <<>>, inc[3], exc[3]),
                  Group("C", 2, <<>>, inc[4], exc[4]),
                  Group("K", NoGroup, <<>>, inc[5], exc[5])>>,
     roots |-> <<1, 5>>]

\* Group.full_name: the names from the root down to the group.
RECURSIVE full_name(_, _)
full_name(groups, g) ==
    IF groups[g].parent = NoGroup
    THEN <<groups[g].name>>
    ELSE Append(full_name(groups, groups[g].parent), groups[g].name)

\* The set of the elements of a sequence.
Range(s) == {s[i] : i \in 1..Len(s)}

\* The groups below g, at any depth.
RECURSIVE Descendants(_, _)
Descendants(groups, g) ==
    Range(groups[g].subgroups)
        \cup UNION {Descendants(groups, c) : c \in Range(groups[g].subgroups)}

-----------------------------------------------------------------------------
(* Matching *)

\* The name the patterns of a group are matched against.
Normalized(path) == normalize_name(SplitextRoot(path))

\* any(p.matches(normalized) for p in patterns)
AnyMatches(patterns, normalized) ==
    \E i \in 1..Len(patterns) : PatternMatches(patterns[i], normalized)

\* A group without include patterns taken to match every file.
file_matches_group_name_empty_true(path, grp) ==
    IF grp.include_patterns = <<>> THEN TRUE
    ELSE /\ AnyMatches(grp.include_patterns, Normalized(path))
         /\ ~AnyMatches(grp.exclude_patterns, Normalized(path))

\* The exclude patterns left out.
file_matches_group_name_no_exclude(path, grp) ==
    IF grp.include_patterns = <<>> THEN FALSE
    ELSE AnyMatches(grp.include_patterns, Normalized(path))

file_matches_group_name(path, grp) ==
    IF grp.include_patterns = <<>> THEN FALSE
    ELSE IF ~AnyMatches(grp.include_patterns, Normalized(path)) THEN FALSE
    ELSE IF AnyMatches(grp.exclude_patterns, Normalized(path)) THEN FALSE
    ELSE TRUE

RECURSIVE match_file_recursively(_, _, _)

\* The loop over group.subgroups: the subgroups' results, one after another.
RECURSIVE SubgroupMatches(_, _, _)
SubgroupMatches(groups, path, subs) ==
    IF subs = <<>> THEN <<>>
    ELSE match_file_recursively(groups, path, Head(subs))
             \o SubgroupMatches(groups, path, Tail(subs))

\* The group tested, and added, whatever its subgroups returned.
match_file_recursively_always(groups, path, g) ==
    LET found == SubgroupMatches(groups, path, groups[g].subgroups)
    IN  IF file_matches_group_name(path, groups[g])
        THEN Append(found, g)
        ELSE found

match_file_recursively(groups, path, g) ==
    LET found == SubgroupMatches(groups, path, groups[g].subgroups)
    IN  IF found = <<>> /\ file_matches_group_name(path, groups[g])
        THEN Append(found, g)
        ELSE found

\* The include and exclude lists a group of the classifier run may have.
IncludeChoices == {<<>>, <<PatA>>, <<PatWild, PatAlt>>}
ExcludeChoices == {<<>>, <<PatAB, PatNone>>}

\* The forests of the classifier run.
Forests ==
    {Forest("B", inc, exc) : inc \in [GroupIds -> IncludeChoices],
                             exc \in [GroupIds -> ExcludeChoices]}

-----------------------------------------------------------------------------
(* The classifier run: match_file_recursively called on a group *)

MatchInit ==
    /\ top_groups \in Forests
    /\ file_path \in Names
    /\ group = NoGroup
    /\ result = <<>>
    /\ cpc = "idle"

Classify ==
    /\ cpc = "idle"
    /\ \E g \in GroupIds :
        /\ group' = g
        /\ result' = match_file_recursively(top_groups.groups, file_path, g)
    /\ cpc' = "called"
    /\ UNCHANGED <<top_groups, file_path>>
    /\ UNCHANGED <<nvars, pvars>>

-----------------------------------------------------------------------------
(* The normalisation run: normalize_name applied once and once more *)

NormInit ==
    /\ text \in Strings
    /\ once = <<>>
    /\ twice = <<>>
    /\ npc = "in"

NormalizeOnce ==
    /\ npc = "in"
    /\ once' = normalize_name(text)
    /\ npc' = "once"
    /\ UNCHANGED <<text, twice>>
    /\ UNCHANGED <<top_groups, cvars, pvars>>

NormalizeTwice ==
    /\ npc = "once"
    /\ twice' = normalize_name(once)
    /\ npc' = "twice"
    /\ UNCHANGED <<text, once>>
    /\ UNCHANGED <<top_groups, cvars, pvars>>


-----------------------------------------------------------------------------
(* The file system *)

\* fs.src  the source files that exist (a source file is [dir, name]);
\* fs.dst  the files below the destination directory: path -> inode, a path
\*         being [dir, name] with dir the directory's components;
\* fs.data what each inode holds: the source file whose bytes it has;
\* fs.dirs the directories that exist at or below the destination directory;
\* fs.log  the calls that touched the file system, in order: the operation,
\*         the source file process_all was handling, the path, the outcome.
\* A call that fails leaves the file system as it was.

Event(op, file, path, ok) == [op |-> op, file |-> file, path |-> path, ok |-> ok]

DirPath(dir) == [dir |-> dir, name |-> <<>>]

\* os.path.dirname(path) and the directories above it, the destination
\* directory (<<>>) included.
Prefixes(dir) == {SubSeq(dir, 1, n) : n \in 0..Len(dir)}

\* os.makedirs(dir, exist_ok=True)
makedirs(f, file, dir, ok) ==
    IF ok
    THEN [f EXCEPT !.dirs = @ \cup Prefixes(dir),
                   !.log = Append(@, Event("mkdir", file, DirPath(dir), TRUE))]
    ELSE [f EXCEPT !.log = Append(@, Event("mkdir", file, DirPath(dir), FALSE))]

\* The bytes of content written to path: into the inode the path names, or
\* into a new one.
WriteFile(f, path, content) ==
    IF path \in DOMAIN f.dst
    THEN [f EXCEPT !.data[f.dst[path]] = content]
    ELSE [f EXCEPT !.dst = @ @@ (path :> (Len(f.data) + 1)),
                   !.data = Append(@, content)]

\* shutil.copy2(src_path, path) of a source file.
copy2_source(f, file, path, ok) ==
    IF ok
    THEN [WriteFile(f, path, file) EXCEPT
              !.log = Append(@, Event("copy", file, path, TRUE))]
    ELSE [f EXCEPT !.log = Append(@, Event("copy", file, path, FALSE))]

\* Whether shutil.copy2(source, path) between two destination paths goes
\* through: the source must exist (FileNotFoundError) and must not be the
\* same file as the target (SameFileError).
CopySucceeds(f, source, path, ok) ==
    /\ ok
    /\ source \in DOMAIN f.dst
    /\ ~(path \in DOMAIN f.dst /\ f.dst[path] = f.dst[source])

\* shutil.copy2(source, path) between two destination paths.
copy2(f, file, source, path, ok) ==
    IF CopySucceeds(f, source, path, ok)
    THEN [WriteFile(f, path, f.data[f.dst[source]]) EXCEPT
              !.log = Append(@, Event("copy", file, path, TRUE))]
    ELSE [f EXCEPT !.log = Append(@, Event("copy", file, path, FALSE))]

\* os.remove(path) of a destination file.
remove(f, file, path, ok) ==
    IF ok
    THEN [f EXCEPT !.dst = [p \in (DOMAIN @) \ {path} |-> @[p]],
                   !.log = Append(@, Event("remove", file, path, TRUE))]
    ELSE [f EXCEPT !.log = Append(@, Event("remove", file, path, FALSE))]

\* Whether os.link(source, path) goes through: the source must exist and the
\* path must not.
LinkSucceeds(f, source, path, ok) ==
    /\ ok
    /\ source \in DOMAIN f.dst
    /\ path \notin DOMAIN f.dst

\* os.link(source, path)
link(f, file, source, path, ok) ==
    IF LinkSucceeds(f, source, path, ok)
    THEN [f EXCEPT !.dst = @ @@ (path :> @[source]),
                   !.log = Append(@, Event("link", file, path, TRUE))]
    ELSE [f EXCEPT !.log = Append(@, Event("link", file, path, FALSE))]

\* ensure_dir(path, dry_run)
ensure_dir(f, file, dir, dry, ok) ==
    IF dry THEN f ELSE makedirs(f, file, dir, ok)

\* create_hardlink_or_copy(source, link_path, dry_run): the file system it
\* leaves and whether it raised.  mk_ok, rm_ok, ln_ok, cp_ok: whether the
\* operating system lets makedirs, remove, link and copy2 go through.
create_hardlink_or_copy(f, file, source, link_path, dry, mk_ok, rm_ok, ln_ok, cp_ok) ==
    LET f1 == makedirs(f, file, link_path.dir, mk_ok)
    IN  IF ~mk_ok THEN [fs |-> f1, raised |-> TRUE]
        ELSE IF dry THEN [fs |-> f1, raised |-> FALSE]
        ELSE LET exists == link_path \in DOMAIN f1.dst
                 removed == ~exists \/ rm_ok
                 f2 == IF exists THEN remove(f1, file, link_path, rm_ok) ELSE f1
                 linked == removed /\ LinkSucceeds(f2, source, link_path, ln_ok)
                 f3 == IF removed THEN link(f2, file, source, link_path, ln_ok) ELSE f2
             IN  IF linked THEN [fs |-> f3, raised |-> FALSE]
                 ELSE [fs |-> copy2(f3, file, source, link_path, cp_ok),
                       raised |-> ~CopySucceeds(f3, source, link_path, cp_ok)]

\* The fallback of process_all when hardlinks are not supported: ensure_dir
\* and copy2, or the log lines of a dry run.
copy_fallback(f, file, source, dst_fallback, dry, mk_ok, cp_ok) ==
    LET f1 == ensure_dir(f, file, dst_fallback.dir, dry, mk_ok)
    IN  IF dry THEN [fs |-> f1, raised |-> FALSE]
        ELSE IF ~mk_ok THEN [fs |-> f1, raised |-> TRUE]
        ELSE [fs |-> copy2(f1, file, source, dst_fallback, cp_ok),
              raised |-> ~CopySucceeds(f1, source, dst_fallback, cp_ok)]

-----------------------------------------------------------------------------
(* process_all *)

\* The loop over top_groups: the roots' results, one after another.
RECURSIVE TopMatches(_, _, _)
TopMatches(groups, roots, path) ==
    IF roots = <<>> THEN <<>>
    ELSE match_file_recursively(groups, path, Head(roots))
             \o TopMatches(groups, Tail(roots), path)

\* max((p.priority for p in g.include_patterns), default=0)
RECURSIVE MaxPriority(_)
MaxPriority(patterns) ==
    IF patterns = <<>> THEN 0
    ELSE LET m == MaxPriority(Tail(patterns))
         IN  IF Head(patterns).priority > m THEN Head(patterns).priority ELSE m

\* The sort key of process_all.
SortKey(groups, g) == 0 - MaxPriority(groups[g].include_patterns)

\* g put into a sequence sorted by key, before the groups of the same key.
RECURSIVE InsertBeforeEqual(_, _, _)
InsertBeforeEqual(groups, sorted, g) ==
    IF sorted = <<>> THEN <<g>>
    ELSE IF SortKey(groups, Head(sorted)) < SortKey(groups, g)
         THEN <<Head(sorted)>> \o InsertBeforeEqual(groups, Tail(sorted), g)
         ELSE <<g>> \o sorted

\* g put into a sequence sorted by key, after the groups of the same key.
RECURSIVE InsertSorted(_, _, _)
InsertSorted(groups, sorted, g) ==
    IF sorted = <<>> THEN <<g>>
    ELSE IF SortKey(groups, Head(sorted)) <= SortKey(groups, g)
         THEN <<Head(sorted)>> \o InsertSorted(groups, Tail(sorted), g)
         ELSE <<g>> \o sorted

\* A sort that is not stable: equal keys end up in reverse order.
RECURSIVE sorted_unstable(_, _)
sorted_unstable(groups, ms) ==
    IF ms = <<>> THEN <<>>
    ELSE InsertBeforeEqual(groups,
                           sorted_unstable(groups, SubSeq(ms, 1, Len(ms) - 1)),
                           ms[Len(ms)])

\* sorted(matches, key=...): ascending by key, and stable.
RECURSIVE sorted(_, _)
sorted(groups, ms) ==
    IF ms = <<>> THEN <<>>
    ELSE InsertSorted(groups, sorted(groups, SubSeq(ms, 1, Len(ms) - 1)), ms[Len(ms)])

\* os.path.join(dst_dir, g.full_name, fname)
DestPath(groups, g, fname) == [dir |-> full_name(groups, g), name |-> fname]

\* matches_sorted[1:] with its first group left out.
SecondaryGroupsSkipOne(ms) == IF Len(ms) > 1 THEN Tail(Tail(ms)) ELSE <<>>

\* matches_sorted[1:]
SecondaryGroups(ms) == Tail(ms)

\* The source directories and the source files of the model.
SourceDirs == {<<>>, <<"sub">>}
ProcessNames == {NameAB, NameABC, NameD}
SourceFiles == [dir : SourceDirs, name : ProcessNames]

\* os.walk yields the files of a directory before those of its
\* subdirectories, each file once.
Walks ==
    {w \in UNION {[1..n -> SourceFiles] : n \in 0..MaxFiles} :
        \A i, j \in DOMAIN w :
            i < j => /\ w[i] # w[j]
                     /\ ~(w[i].dir = <<"sub">> /\ w[j].dir = <<>>)}

\* The forests of the runs of process_all.
ProcessForests ==
    {Forest(second,
            <<<<>>, <<PatWild, PatAlt>>, inc3, inc4, inc5>>,
            <<<<>>, <<>>, <<PatAB, PatNone>>, <<>>, <<>>>>) :
        second \in {"A", "B"},
        inc3 \in {<<PatA>>, <<PatRegex, PatBad>>},
        inc4 \in {<<>>, <<PatAlt>>},
        inc5 \in {<<PatAB>>, <<PatStar, PatBad>>}}

ProcessInit ==
    /\ top_groups \in ProcessForests
    /\ dry_run \in BOOLEAN
    /\ move \in BOOLEAN
    /\ hardlink_supported \in BOOLEAN
    /\ walk \in Walks
    /\ idx = 1
    /\ pc = "walk"
    /\ matches = <<>>
    /\ matches_sorted = <<>>
    /\ pending = <<>>
    /\ files_to_delete = <<>>
    /\ deleting = <<>>
    /\ fs = [src |-> Range(walk),
             dst |-> [p \in {} |-> 0],
             data |-> <<>>,
             dirs |-> {},
             log |-> <<>>]

\* What no step of process_all changes.
params == <<top_groups, dry_run, move, hardlink_supported, walk, nvars, cvars>>

\* Move mode taking every file os.walk yields for deletion, matched or not.
NextFileDeleteUnmatched ==
    /\ pc = "walk"
    /\ idx <= Len(walk)
    /\ LET ms == TopMatches(top_groups.groups, top_groups.roots, walk[idx].name)
       IN  IF ms = <<>>
           THEN /\ idx' = idx + 1
                /\ files_to_delete' =
                       IF move THEN Append(files_to_delete, walk[idx])
                       ELSE files_to_delete
                /\ UNCHANGED <<pc, matches, matches_sorted>>
           ELSE /\ matches' = ms
                /\ matches_sorted' = sorted(top_groups.groups, ms)
                /\ pc' = "primary"
                /\ UNCHANGED <<idx, files_to_delete>>
    /\ UNCHANGED <<params, pending, deleting, fs>>

\* The head of the loop body: the next file is classified; a file without a
\* match is passed over, the matches of any other are sorted.
NextFile ==
    /\ pc = "walk"
    /\ idx <= Len(walk)
    /\ LET ms == TopMatches(top_groups.groups, top_groups.roots, walk[idx].name)
       IN  IF ms = <<>>
           THEN /\ idx' = idx + 1
                /\ UNCHANGED <<pc, matches, matches_sorted>>
           ELSE /\ matches' = ms
                /\ matches_sorted' = sorted(top_groups.groups, ms)
                /\ pc' = "primary"
                /\ UNCHANGED idx
    /\ UNCHANGED <<params, pending, files_to_delete, deleting, fs>>

\* The primary placement: ensure_dir and copy2 of the source file.
PlacePrimary ==
    /\ pc = "primary"
    /\ LET file == walk[idx]
           dst_primary == DestPath(top_groups.groups, matches_sorted[1], file.name)
       IN  \E mk_ok, cp_ok \in BOOLEAN :
               LET f1 == ensure_dir(fs, file, dst_primary.dir, dry_run, mk_ok)
               IN  IF dry_run
                   THEN /\ fs' = f1
                        /\ pc' = "secondary"
                   ELSE IF ~mk_ok
                   THEN /\ fs' = f1
                        /\ pc' = "raised"
                   ELSE /\ fs' = copy2_source(f1, file, dst_primary, cp_ok)
                        /\ pc' = IF cp_ok THEN "secondary" ELSE "raised"
    /\ pending' = SecondaryGroups(matches_sorted)
    /\ UNCHANGED <<params, idx, matches, matches_sorted, files_to_delete, deleting>>

\* One turn of the loop over the secondary groups.
PlaceSecondary ==
    /\ pc = "secondary"
    /\ pending # <<>>
    /\ LET file == walk[idx]
           dst_primary == DestPath(top_groups.groups, matches_sorted[1], file.name)
           link_path == DestPath(top_groups.groups, Head(pending), file.name)
       IN  \E mk_ok, rm_ok, ln_ok, cp_ok \in BOOLEAN :
               LET r == IF hardlink_supported
                        THEN create_hardlink_or_copy(fs, file, dst_primary, link_path,
                                                     dry_run, mk_ok, rm_ok, ln_ok, cp_ok)
                        ELSE copy_fallback(fs, file, dst_primary, link_path,
                                           dry_run, mk_ok, cp_ok)
               IN  /\ fs' = r.fs
                   /\ pc' = IF r.raised THEN "raised" ELSE "secondary"
    /\ pending' = Tail(pending)
    /\ UNCHANGED <<params, idx, matches, matches_sorted, files_to_delete, deleting>>

\* The end of the loop body: in move mode the file is noted for deletion.
FinishFile ==
    /\ pc = "secondary"
    /\ pending = <<>>
    /\ files_to_delete' = IF move THEN Append(files_to_delete, walk[idx])
                          ELSE files_to_delete
    /\ idx' = idx + 1
    /\ pc' = "walk"
    /\ UNCHANGED <<params, matches, matches_sorted, pending, deleting, fs>>

\* os.walk is exhausted.
EndWalk ==
    /\ pc = "walk"
    /\ idx > Len(walk)
    /\ IF move
       THEN pc' = "delete" /\ deleting' = files_to_delete
       ELSE pc' = "done" /\ UNCHANGED deleting
    /\ UNCHANGED <<params, idx, matches, matches_sorted, pending, files_to_delete, fs>>

\* One turn of the loop over files_to_delete: os.remove, whose failure is
\* logged and passed over.
DeleteNext ==
    /\ pc = "delete"
    /\ deleting # <<>>
    /\ IF dry_run
       THEN UNCHANGED fs
       ELSE \E ok \in BOOLEAN :
                fs' = [fs EXCEPT
                          !.src = IF ok THEN @ \ {Head(deleting)} ELSE @,
                          !.log = Append(@, Event("delete", Head(deleting),
                                                  Head(deleting), ok))]
    /\ deleting' = Tail(deleting)
    /\ UNCHANGED <<params, idx, pc, matches, matches_sorted, pending, files_to_delete>>

\* files_to_delete is exhausted.
EndDelete ==
    /\ pc = "delete"
    /\ deleting = <<>>
    /\ pc' = "done"
    /\ UNCHANGED <<params, idx, matches, matches_sorted, pending, files_to_delete,
                   deleting, fs>>

ProcessNext ==
    \/ NextFile
    \/ PlacePrimary
    \/ PlaceSecondary
    \/ FinishFile
    \/ EndWalk
    \/ DeleteNext
    \/ EndDelete

NormNext == NormalizeOnce \/ NormalizeTwice

MatchNext == Classify

\* C1: descendant precedence.  When some group below G, at any depth, has a
\* non-empty result, the result for G is the subgroups' results one after
\* another in declared order, and G is not in it.
DescendantPrecedence ==
    cpc = "called" =>
        LET groups == top_groups.groups
        IN  (\E d \in Descendants(groups, group) :
                 match_file_recursively(groups, file_path, d) # <<>>)
            => /\ result = SubgroupMatches(groups, file_path, groups[group].subgroups)
               /\ group \notin Range(result)

\* A group whose own patterns accept the file and that has a matching
\* grandchild is called, and is not part of the result.
DescendantPrecedenceWitness ==
    /\ cpc = "called"
    /\ group = 1
    /\ AnyMatches(top_groups.groups[1].include_patterns, Normalized(file_path))
    /\ ~AnyMatches(top_groups.groups[1].exclude_patterns, Normalized(file_path))
    /\ 4 \in Range(result)
    /\ 1 \notin Range(result)

\* C2: exclude precedence.  A group with an include pattern and an exclude
\* pattern that both match the normalized file name is in no result.
ExcludePrecedence ==
    cpc = "called" =>
        \A g \in GroupIds :
            (/\ AnyMatches(top_groups.groups[g].include_patterns, Normalized(file_path))
             /\ AnyMatches(top_groups.groups[g].exclude_patterns, Normalized(file_path)))
            => g \notin Range(result)

\* A group without matching descendants whose include and exclude patterns
\* both match is called, and nothing is returned.
ExcludePrecedenceWitness ==
    /\ cpc = "called"
    /\ AnyMatches(top_groups.groups[group].include_patterns, Normalized(file_path))
    /\ AnyMatches(top_groups.groups[group].exclude_patterns, Normalized(file_path))
    /\ SubgroupMatches(top_groups.groups, file_path, top_groups.groups[group].subgroups) = <<>>
    /\ result = <<>>

\* C3: empty-include safety.  A group without include patterns is in no
\* result, whichever group the classifier is called on.
EmptyIncludeSafety ==
    cpc = "called" =>
        \A g \in GroupIds :
            top_groups.groups[g].include_patterns = <<>> => g \notin Range(result)

\* A group without include patterns is called and a descendant of it, which
\* has include patterns, is returned.
EmptyIncludeSafetyWitness ==
    /\ cpc = "called"
    /\ top_groups.groups[group].include_patterns = <<>>
    /\ result # <<>>
    /\ \A i \in 1..Len(result) :
           /\ result[i] \in Descendants(top_groups.groups, group)
           /\ top_groups.groups[result[i]].include_patterns # <<>>

\* A string normalize_name leaves as it is: no separator, no upper-case
\* letter, no whitespace but single spaces between other characters.
IsNormalForm(s) ==
    /\ \A i \in 1..Len(s) :
           /\ ~IsSeparator(s[i])
           /\ Lower(s[i]) = s[i]
           /\ IsSpace(s[i]) => s[i] = " " /\ 1 < i /\ i < Len(s)
    /\ \A i \in 1..(Len(s) - 1) : ~(IsSpace(s[i]) /\ IsSpace(s[i + 1]))

\* C9: normalisation is idempotent.  normalize_name of a string is in
\* normal form, and normalize_name of that is the same string.
NormalizationIdempotence ==
    /\ npc \in {"once", "twice"} => IsNormalForm(once)
    /\ npc = "twice" => twice = once

\* A string with a separator and whitespace, shortened by normalisation to
\* a string that is not empty, has been normalised twice.
NormalizationIdempotenceWitness ==
    /\ npc = "twice"
    /\ \E i \in 1..Len(text) : IsSeparator(text[i])
    /\ \E i \in 1..Len(text) : IsSpace(text[i])
    /\ \E i \in 1..Len(once) : once[i] = " "
    /\ Len(once) < Len(text)

-----------------------------------------------------------------------------
(* The claims about process_all *)

\* What the classifier returns, called on every root in forest order, for
\* each forest and each file name of the runs of process_all.
ClassifierResults ==
    [forest \in ProcessForests |->
        [name \in ProcessNames |-> TopMatches(forest.groups, forest.roots, name)]]

\* The groups the classifier returns for a source file.
FileMatches(f) == ClassifierResults[top_groups][f.name]

\* The destination path of a source file in a group.
Dest(g, f) == DestPath(top_groups.groups, g, f.name)

\* A group's greatest include-pattern priority.
Priority(g) == MaxPriority(top_groups.groups[g].include_patterns)

\* The place of a group in a sequence of distinct groups.
Position(ms, g) == CHOOSE i \in 1..Len(ms) : ms[i] = g

\* The first group, in the order of ms, among those of greatest priority.
FirstOfGreatest(ms) ==
    CHOOSE g \in Range(ms) :
        \A h \in Range(ms) :
            \/ Priority(g) > Priority(h)
            \/ Priority(g) = Priority(h) /\ Position(ms, g) <= Position(ms, h)

\* The log entries up to n that record a file created at path (copied to or
\* linked at) while f was handled.
Writes(f, path, n) ==
    {i \in 1..n : /\ fs.log[i].file = f
                  /\ fs.log[i].path = path
                  /\ fs.log[i].op \in {"copy", "link"}
                  /\ fs.log[i].ok}

\* C4: primary selection with a stable tie-break.  The match list is the
\* roots' results in forest order; matches_sorted holds the same groups by
\* descending greatest priority, groups of equal priority in the order of
\* the match list; so the primary is the first of the match list among the
\* groups of greatest priority.
StableTieBreak ==
    pc \in {"primary", "secondary"} =>
        /\ matches = FileMatches(walk[idx])
        /\ Len(matches_sorted) = Len(matches)
        /\ Range(matches_sorted) = Range(matches)
        /\ \A i, j \in 1..Len(matches_sorted) :
               i < j =>
                   /\ Priority(matches_sorted[i]) >= Priority(matches_sorted[j])
                   /\ Priority(matches_sorted[i]) = Priority(matches_sorted[j])
                          => Position(matches, matches_sorted[i])
                                 < Position(matches, matches_sorted[j])
        /\ matches_sorted[1] = FirstOfGreatest(matches)

\* Three groups matched, the sort moved a group, and the two groups of
\* greatest priority tie.
StableTieBreakWitness ==
    /\ pc = "primary"
    /\ Len(matches) = 3
    /\ matches_sorted # matches
    /\ Priority(matches_sorted[1]) = Priority(matches_sorted[2])
    /\ Priority(matches_sorted[2]) > Priority(matches_sorted[3])

\* What the destination holds for source file f once f is placed: nothing
\* was done for a file without a match; otherwise the primary's path holds
\* the bytes of f, every other matched group's path holds a link to the
\* primary's file or a copy of it (a copy only when hardlinks are not
\* supported or the remove or link there failed), and files were created at
\* the paths of the matched groups and nowhere else.
Placed(f) ==
    LET ms == FileMatches(f)
    IN  IF ms = <<>>
        THEN \A i \in 1..Len(fs.log) : fs.log[i].file # f
        ELSE LET primary == Dest(FirstOfGreatest(ms), f)
             IN  /\ primary \in DOMAIN fs.dst
                 /\ fs.data[fs.dst[primary]] = f
                 /\ \A g \in Range(ms) :
                        /\ Dest(g, f) \in DOMAIN fs.dst
                        /\ fs.data[fs.dst[Dest(g, f)]] = f
                        /\ fs.dst[Dest(g, f)] # fs.dst[primary]
                               => \/ ~hardlink_supported
                                  \/ \E i \in 1..Len(fs.log) :
                                         /\ fs.log[i].file = f
                                         /\ fs.log[i].path = Dest(g, f)
                                         /\ fs.log[i].op \in {"remove", "link"}
                                         /\ ~fs.log[i].ok
                 /\ {fs.log[i].path :
                        i \in {k \in 1..Len(fs.log) :
                                  k \in Writes(f, fs.log[k].path, Len(fs.log))}}
                        = {Dest(g, f) : g \in Range(ms)}

\* C5 as stated: placement completeness.  When process_all has gone through
\* without raising, every source file is placed at the paths of exactly the
\* groups the classifier returned for it.
PlacementCompleteness ==
    pc = "done" => \A i \in 1..Len(walk) : Placed(walk[i])

\* C5 as amended: placement completeness outside a dry run.  With dry_run
\* not set, a source file is placed once process_all has handled it without
\* raising, and at the end of the run every source file is placed that no
\* later source file shares its base name with.
PlacementCompletenessNoDryRun ==
    ~dry_run =>
        /\ (pc = "walk" /\ idx > 1) => Placed(walk[idx - 1])
        /\ pc = "done" =>
               \A i \in 1..Len(walk) :
                   (\A j \in (i + 1)..Len(walk) : walk[j].name # walk[i].name)
                       => Placed(walk[i])

\* A file that matched three groups has been placed, one of the secondary
\* placements being a copy made after a failed link.
PlacementCompletenessWitness ==
    /\ ~dry_run
    /\ hardlink_supported
    /\ pc = "walk"
    /\ idx > 1
    /\ Len(FileMatches(walk[idx - 1])) = 3
    /\ \E i \in 1..Len(fs.log) :
           /\ fs.log[i].file = walk[idx - 1]
           /\ fs.log[i].op = "link"
           /\ ~fs.log[i].ok
    /\ \E i \in 1..Len(fs.log) :
           /\ fs.log[i].file = walk[idx - 1]
           /\ fs.log[i].op = "link"
           /\ fs.log[i].ok

\* C6: move ordering.  os.remove of a source file comes only after the
\* file's primary copy and all its secondary links or copies went through;
\* a file that matched no group is never deleted, and a source file is gone
\* only when process_all deleted it.
MoveOrdering ==
    /\ \A i \in 1..Len(fs.log) :
           fs.log[i].op = "delete" =>
               LET f == fs.log[i].file
               IN  /\ move
                   /\ FileMatches(f) # <<>>
                   /\ \A g \in Range(FileMatches(f)) : Writes(f, Dest(g, f), i - 1) # {}
    /\ \A f \in Range(walk) \ fs.src :
           \E i \in 1..Len(fs.log) :
               fs.log[i].op = "delete" /\ fs.log[i].file = f /\ fs.log[i].ok
    /\ pc = "raised" => fs.src = Range(walk)

\* In move mode a file that matched two groups or more has been deleted,
\* while another source file, which matched nothing, is still there.
MoveOrderingWitness ==
    /\ move
    /\ pc = "done"
    /\ \E f \in Range(walk) :
           /\ f \notin fs.src
           /\ Len(FileMatches(f)) >= 2
    /\ \E f \in fs.src : FileMatches(f) = <<>>

\* C7: a failed copy or link of one file does not end the run: process_all
\* never leaves its loops by an exception.
NeverAborted ==
    pc # "raised"

\* C8: at most one write per destination path.  While one source file is
\* handled, a file is created at each destination path at most once, and no
\* path is removed after the same source file's placement created it.
AtMostOneWrite ==
    \A i \in 1..Len(fs.log) :
        LET e == fs.log[i]
        IN  /\ (e.op \in {"copy", "link"} /\ e.ok)
                => Writes(e.file, e.path, i - 1) = {}
            /\ (e.op = "remove" /\ e.ok)
                => Writes(e.file, e.path, i - 1) = {}

\* C10: a dry run leaves the file system unchanged: no directory is made, no
\* file is created, removed or deleted.
DryRunNoChange ==
    dry_run =>
        /\ fs.dirs = {}
        /\ DOMAIN fs.dst = {}
        /\ fs.src = Range(walk)
        /\ fs.log = <<>>

\* The normalisation run.
InitNorm ==
    /\ NormInit
    /\ top_groups = Forest("B", [g \in GroupIds |-> <<>>], [g \in GroupIds |-> <<>>])
    /\ file_path = <<>> /\ group = NoGroup /\ result = <<>> /\ cpc = "off"
    /\ dry_run = FALSE /\ move = FALSE /\ hardlink_supported = FALSE
    /\ walk = <<>> /\ idx = 1 /\ pc = "off"
    /\ matches = <<>> /\ matches_sorted = <<>> /\ pending = <<>>
    /\ files_to_delete = <<>> /\ deleting = <<>> /\ fs = <<>>

SpecNorm == InitNorm /\ [][NormNext]_vars

\* The classifier run.
InitMatch ==
    /\ MatchInit
    /\ text = <<>> /\ once = <<>> /\ twice = <<>> /\ npc = "off"
    /\ dry_run = FALSE /\ move = FALSE /\ hardlink_supported = FALSE
    /\ walk = <<>> /\ idx = 1 /\ pc = "off"
    /\ matches = <<>> /\ matches_sorted = <<>> /\ pending = <<>>
    /\ files_to_delete = <<>> /\ deleting = <<>> /\ fs = <<>>

SpecMatch == InitMatch /\ [][MatchNext]_vars

\* A run of process_all.
Init ==
    /\ ProcessInit
    /\ text = <<>> /\ once = <<>> /\ twice = <<>> /\ npc = "off"
    /\ file_path = <<>> /\ group = NoGroup /\ result = <<>> /\ cpc = "off"

Next == ProcessNext

Spec == Init /\ [][Next]_vars

=============================================================================
